---- MODULE Spec2Model ----
(***************************************************************************)
(* vox-relay: a Telegram bot that turns a voice message into an email.     *)
(*                                                                         *)
(* The model follows the most recent version of each service:             *)
(*   TelegramService  src/src/modules/telegram/telegram.service.ts         *)
(*   WhisperService   src/src/modules/telegram/telegram.module.ts 239-470  *)
(*   EmailService     src/src/modules/telegram/telegram.module.ts 512-720  *)
(*   GptService       src/unnamed/part_000                                 *)
(*                                                                         *)
(* Strings whose characters the code inspects (extensions, replies, email  *)
(* fields, transcripts) are sequences of one-character strings.            *)
(***************************************************************************)
EXTENDS Integers, Sequences, FiniteSets, TLC

\* ------------------------------------------------------------------ bounds

\* Voice messages received since startup.
MaxRuns == 2
\* Text messages received since startup.
MaxTexts == 2
\* Largest value of the millisecond clock (Date.now()) the model distinguishes.
MaxClock == 1

\* The calls of sendEmail followed while the service starts.
MaxSends == 2

\* ----------------------------------------------------------------- strings

LowerOf ==
  [A |-> "a", B |-> "b", C |-> "c", D |-> "d", E |-> "e", F |-> "f", G |-> "g",
   H |-> "h", I |-> "i", J |-> "j", K |-> "k", L |-> "l", M |-> "m", N |-> "n",
   O |-> "o", P |-> "p", Q |-> "q", R |-> "r", S |-> "s", T |-> "t", U |-> "u",
   V |-> "v", W |-> "w", X |-> "x", Y |-> "y", Z |-> "z"]

LowerChar(c) == IF c \in DOMAIN LowerOf THEN LowerOf[c] ELSE c

\* String.prototype.toLowerCase
toLowerCase(s) == [i \in 1..Len(s) |-> LowerChar(s[i])]

Letters ==
  {LowerOf[c] : c \in DOMAIN LowerOf} \cup DOMAIN LowerOf

Digits == {"0", "1", "2", "3", "4", "5", "6", "7", "8", "9"}

Whitespace == {" ", "\t", "\n"}

RECURSIVE TrimStart(_)
TrimStart(s) ==
  IF s # <<>> /\ Head(s) \in Whitespace THEN TrimStart(Tail(s)) ELSE s

RECURSIVE TrimEnd(_)
TrimEnd(s) ==
  IF s # <<>> /\ s[Len(s)] \in Whitespace
  THEN TrimEnd(SubSeq(s, 1, Len(s) - 1))
  ELSE s

\* String.prototype.trim
trimIdentity(s) == s

trim(s) == TrimEnd(TrimStart(s))

\* Positions of character c in s.
IndexesOf(s, c) == {i \in 1..Len(s) : s[i] = c}

\* The pieces of s between the occurrences of c (String.prototype.split).
RECURSIVE Split(_, _)
Split(s, c) ==
  IF IndexesOf(s, c) = {} THEN <<s>>
  ELSE LET i == CHOOSE k \in IndexesOf(s, c) : \A j \in IndexesOf(s, c) : k <= j
       IN  <<SubSeq(s, 1, i - 1)>> \o Split(SubSeq(s, i + 1, Len(s)), c)

\* ------------------------------------------------------------- filesystem

\* A path in the temporary directory: <tmpDir>/<name><ext> for an audio file,
\* <tmpDir>/<name>_<stamp>.mp3 for a transcoded copy (stamp = -1: no stamp).
Path(name, stamp, ext) == [name |-> name, stamp |-> stamp, ext |-> ext]

NoPath == Path("", -1, <<>>)

OggExt == <<".", "o", "g", "g">>
Mp3Ext == <<".", "m", "p", "3">>

\* A file: the path it is linked at, the run whose stream or tool created it,
\* its size in bytes.
File(p, owner, size) == [path |-> p, owner |-> owner, size |-> size]

\* fs.existsSync
existsSync(files, p) == \E f \in files : f.path = p

\* fs.statSync(p).size
statSize(files, p) == (CHOOSE f \in files : f.path = p).size

\* fs.unlinkSync
unlinkSync(files, p) == {f \in files : f.path # p}

\* Creating or truncating the file at p.
writeFile(files, p, owner, size) == unlinkSync(files, p) \cup {File(p, owner, size)}

\* ----------------------------------------------------------- WhisperService

supportedFormats ==
  {OggExt, Mp3Ext, <<".", "w", "a", "v">>, <<".", "m", "4", "a">>,
   <<".", "w", "e", "b", "m">>}

maxFileSize == 25 * 1024 * 1024

\* validateAudioFile: the first failing check decides. The BadRequestException
\* messages are named NotFound ('Audio file not found'), EmptyFile ('Audio file
\* is empty'), TooLarge ('Audio file is too large...'), UnsupportedFormat
\* ('Unsupported file format...').
validateAudioFileNoSizeCeiling(files, p) ==
  IF ~existsSync(files, p) THEN "NotFound"
  ELSE IF statSize(files, p) = 0 THEN "EmptyFile"
  ELSE IF toLowerCase(p.ext) \notin supportedFormats THEN "UnsupportedFormat"
  ELSE "ok"

validateAudioFileExtensionFirst(files, p) ==
  IF ~existsSync(files, p) THEN "NotFound"
  ELSE IF toLowerCase(p.ext) \notin supportedFormats THEN "UnsupportedFormat"
  ELSE IF statSize(files, p) = 0 THEN "EmptyFile"
  ELSE IF statSize(files, p) > maxFileSize THEN "TooLarge"
  ELSE "ok"

validateAudioFileNoExtensionCheck(files, p) ==
  IF ~existsSync(files, p) THEN "NotFound"
  ELSE IF statSize(files, p) = 0 THEN "EmptyFile"
  ELSE IF statSize(files, p) > maxFileSize THEN "TooLarge"
  ELSE "ok"

validateAudioFile(files, p) ==
  IF ~existsSync(files, p) THEN "NotFound"
  ELSE IF statSize(files, p) = 0 THEN "EmptyFile"
  ELSE IF statSize(files, p) > maxFileSize THEN "TooLarge"
  ELSE IF toLowerCase(p.ext) \notin supportedFormats THEN "UnsupportedFormat"
  ELSE "ok"

\* getMp3Path: <tmpDir>/<basename without extension>_<Date.now()>.mp3
getMp3Path(originalPath, now) == Path(originalPath.name, now, Mp3Ext)

\* What ffmpeg can do with one conversion: finish, or fail having written part
\* of the output, or fail before writing any.
ConvertOutcomes == {"converted", "failedPartial", "failedClean"}

\* What the transcription endpoint can do with one upload.
UploadFailures == {"http401", "http429", "timeout", "other"}

\* sendToWhisper's translation of a failed upload into the thrown Error.
whisperError(outcome) ==
  CASE outcome = "http401" -> "InvalidCredentials"
    [] outcome = "http429" -> "RateLimited"
    [] outcome = "timeout" -> "UpstreamTimeout"
    [] OTHER -> "TranscriptionFailed"

\* --------------------------------------------------------------- zod schemas

\* z.string().email(): zod's pattern
\*   ^(?!\.)(?!.*\.\.)([A-Z0-9_'+\-\.]*)[A-Z0-9_+-]@([A-Z0-9][A-Z0-9\-]*\.)+[A-Z]{2,}$
\* (case-insensitive), on a string given as its characters.
LocalChars == Letters \cup Digits \cup {"_", "'", "+", "-", "."}
LocalLastChars == Letters \cup Digits \cup {"_", "+", "-"}
LabelChars == Letters \cup Digits \cup {"-"}

HasDoubleDot(s) == \E i \in 1..(Len(s) - 1) : s[i] = "." /\ s[i + 1] = "."

IsLocalPart(l) ==
  /\ l # <<>>
  /\ \A i \in 1..Len(l) : l[i] \in LocalChars
  /\ l[Len(l)] \in LocalLastChars

IsLabel(l) ==
  /\ l # <<>>
  /\ l[1] \in Letters \cup Digits
  /\ \A i \in 1..Len(l) : l[i] \in LabelChars

IsTld(l) == Len(l) >= 2 /\ \A i \in 1..Len(l) : l[i] \in Letters

IsDomain(d) ==
  LET labels == Split(d, ".")
  IN  /\ Len(labels) >= 2
      /\ \A i \in 1..(Len(labels) - 1) : IsLabel(labels[i])
      /\ IsTld(labels[Len(labels)])

IsEmail(s) ==
  LET parts == Split(s, "@")
  IN  /\ s # <<>>
      /\ s[1] # "."
      /\ ~HasDoubleDot(s)
      /\ Len(parts) = 2
      /\ IsLocalPart(parts[1])
      /\ IsDomain(parts[2])

\* JSON values as JSON.parse returns them. A property of an object is a string,
\* a value of another type, or absent.
Str(s) == [t |-> "string", s |-> s]
NotAString == [t |-> "number", s |-> <<>>]
Undefined == [t |-> "undefined", s |-> <<>>]
Obj(to, subject, body) == [t |-> "object", to |-> to, subject |-> subject, body |-> body]
NonObject == [t |-> "null", to |-> Undefined, subject |-> Undefined, body |-> Undefined]

\* The issues z.object({to, subject, body}).parse(v) collects: the paths of the
\* properties that fail, or the root path when v is no object.
emailSchemaIssues(v) ==
  IF v.t # "object" THEN {"(root)"}
  ELSE {k \in {"to"} : v.to.t # "string" \/ ~IsEmail(v.to.s)}
       \cup {k \in {"subject"} : v.subject.t # "string" \/ Len(v.subject.s) < 1}
       \cup {k \in {"body"} : v.body.t # "string" \/ Len(v.body.s) < 1}

\* The value emailSchema.parse returns when there are no issues: the three
\* properties, anything else stripped.
Draft(to, subject, body) == [to |-> to, subject |-> subject, body |-> body]

NoDraft == Draft(<<>>, <<>>, <<>>)

emailSchemaOutput(v) == Draft(v.to.s, v.subject.s, v.body.s)

\* --------------------------------------------------------------- GptService

\* The content of the first choice of a chat completion: absent (no choice, or
\* a null content), the empty string, text that is not JSON, or JSON text.
Content(syntax, value) == [syntax |-> syntax, value |-> value]

\* JSON.parse: the value of JSON text, a SyntaxError for anything else.
JSONparseLenient(raw) == [ok |-> TRUE, value |-> raw.value]

JSONparse(raw) == [ok |-> raw.syntax = "json", value |-> raw.value]

\* What one chat completion request can do: fail, or answer with a content.
Completion(api, content) == [api |-> api, content |-> content]

Result(status, data, requested) ==
  [status |-> status, data |-> data, requested |-> requested]

\* extractEmailFields(text) with the default configuration. `requested` says
\* whether the chat completion request was made. The thrown errors are named
\* InvalidInput (BadRequestException 'Text cannot be empty'), MalformedResponse
\* (BadRequestException 'Invalid JSON response from GPT'), InvalidDraft
\* (BadRequestException 'Invalid response format from GPT') and ExtractionFailed
\* (Error 'Failed to extract email fields: ...').
extractEmailFieldsUnvalidated(text, completion) ==
  IF trim(text) = <<>> THEN Result("InvalidInput", NoDraft, FALSE)
  ELSE IF completion.api # "ok" THEN Result("ExtractionFailed", NoDraft, TRUE)
  ELSE IF completion.content.syntax \in {"absent", "empty"}
       THEN Result("ExtractionFailed", NoDraft, TRUE)
  ELSE IF ~JSONparse(completion.content).ok
       THEN Result("MalformedResponse", NoDraft, TRUE)
  ELSE IF JSONparse(completion.content).value.t # "object"
       THEN Result("InvalidDraft", NoDraft, TRUE)
  ELSE Result("ok", emailSchemaOutput(JSONparse(completion.content).value), TRUE)

extractEmailFields(text, completion) ==
  IF trim(text) = <<>> THEN Result("InvalidInput", NoDraft, FALSE)
  ELSE IF completion.api # "ok" THEN Result("ExtractionFailed", NoDraft, TRUE)
  ELSE IF completion.content.syntax \in {"absent", "empty"}
       THEN Result("ExtractionFailed", NoDraft, TRUE)
  ELSE IF ~JSONparse(completion.content).ok
       THEN Result("MalformedResponse", NoDraft, TRUE)
  ELSE IF emailSchemaIssues(JSONparse(completion.content).value) # {}
       THEN Result("InvalidDraft", NoDraft, TRUE)
  ELSE Result("ok", emailSchemaOutput(JSONparse(completion.content).value), TRUE)

\* ------------------------------------------- GptService: the configuration

\* An optional property of the caller's config: absent, or present with a
\* value. Temperatures are in tenths: 7 is 0.7 and 20 is 2.
Opt(present, v) == [present |-> present, v |-> v]

GptConfig(model, temperature, maxTokens) ==
  [model |-> model, temperature |-> temperature, maxTokens |-> maxTokens]

\* No config argument.
NoConfig == GptConfig(Opt(FALSE, ""), Opt(FALSE, 0), Opt(FALSE, 0))

\* this.defaultConfig
defaultConfig == [model |-> "gpt-4", temperature |-> 7, maxTokens |-> 1000]

\* { ...this.defaultConfig, ...config }
mergeConfig(config) ==
  [model |-> IF config.model.present THEN config.model.v ELSE defaultConfig.model,
   temperature |-> IF config.temperature.present THEN config.temperature.v
                   ELSE defaultConfig.temperature,
   maxTokens |-> IF config.maxTokens.present THEN config.maxTokens.v
                 ELSE defaultConfig.maxTokens]

\* The issues of gptConfigSchema.parse: temperature below 0 or above 2.
gptConfigSchemaIssues(merged) ==
  {k \in {"temperature"} : merged.temperature < 0 \/ merged.temperature > 20}

\* The class of the exception behind each error of extractEmailFields.
exceptionOf(status) ==
  CASE status \in {"InvalidInput", "MalformedResponse", "InvalidDraft"} -> "BadRequestException"
    [] status = "InvalidConfig" -> "ZodError"
    [] status = "ExtractionFailed" -> "Error"
    [] OTHER -> "none"

\* The parameters of the chat completion request (model "": none was made).
NoRequest == [model |-> "", temperature |-> 0, maxTokens |-> 0]

GptOutcome(status, exception, requested, request) ==
  [status |-> status, exception |-> exception, requested |-> requested,
   request |-> request]

\* extractEmailFields(text, config): the text is checked, then the merged
\* config is parsed, outside the try block, so that its ZodError leaves the
\* method as it is; then the request is made with the merged values.
extractEmailFieldsWith(text, config, completion) ==
  IF trim(text) = <<>>
  THEN GptOutcome("InvalidInput", exceptionOf("InvalidInput"), FALSE, NoRequest)
  ELSE IF gptConfigSchemaIssues(mergeConfig(config)) # {}
  THEN GptOutcome("InvalidConfig", exceptionOf("InvalidConfig"), FALSE, NoRequest)
  ELSE GptOutcome(extractEmailFields(text, completion).status,
                  exceptionOf(extractEmailFields(text, completion).status),
                  TRUE, mergeConfig(config))

\* -------------------------------------------------------------- EmailService

\* sendEmail(email) with no options: the draft is validated against the same
\* schema again, then submitted to the transport. `submitted` says whether
\* transporter.sendMail was called. The thrown errors are named InvalidEmailData
\* (BadRequestException 'Invalid email data: ...') and DeliveryFailed (Error
\* 'Email sending failed: ...').
sendEmail(email, transportOk) ==
  IF emailSchemaIssues(Obj(Str(email.to), Str(email.subject), Str(email.body))) # {}
  THEN Result("InvalidEmailData", email, FALSE)
  ELSE IF ~transportOk THEN Result("DeliveryFailed", email, TRUE)
  ELSE Result("ok", email, TRUE)

\* A value of the configuration: the variable is not set, set to the empty
\* string, or set to something.
ConfigValues == {"absent", "empty", "set"}

\* validateSmtpConfig: `!host || !port || !user || !pass` throws the Error
\* 'Missing required SMTP configuration', named MissingSmtpConfig.
validateSmtpConfigIgnoringPass(host, port, user, pass) ==
  IF host # "set" \/ port # "set" \/ user # "set"
  THEN "MissingSmtpConfig" ELSE "ok"

validateSmtpConfig(host, port, user, pass) ==
  IF host # "set" \/ port # "set" \/ user # "set" \/ pass # "set"
  THEN "MissingSmtpConfig" ELSE "ok"

\* The EmailService instance: the four required values of its configuration,
\* how far its constructor got ("new", "threw", "constructed") and the error
\* it threw, whether nodemailer.createTransport was called, the state of the
\* verifyConnection promise ("none", "pending", "ok", "failed"), whether the
\* process is alive, and for each sendEmail call made so far the state of
\* verifyConnection when it was made.
Smtp(host, port, user, pass, state, error, transport, verify, alive, sent) ==
  [host |-> host, port |-> port, user |-> user, pass |-> pass, state |-> state,
   error |-> error, transport |-> transport, verify |-> verify, alive |-> alive,
   sent |-> sent]

\* The instance of a bot that is up: configured, constructed and verified.
RunningSmtp ==
  Smtp("set", "set", "set", "set", "constructed", "none", TRUE, "ok", TRUE, <<>>)

\* ---------------------------------------------------- the exceptions' messages

\* The message of the issue zod raises for a property: its own for a missing
\* property or one of another type, the schema's for a string that fails the
\* check.
issueMessage(value, custom) ==
  IF value.t = "undefined" THEN "Required"
  ELSE IF value.t # "string" THEN "Expected string, received number"
  ELSE custom

\* error.errors.map(e => e.message) of the ZodError emailSchema.parse(v) throws:
\* one message for each failing property, in the order of the schema.
emailSchemaMessages(v) ==
  IF v.t # "object" THEN <<"Expected object, received null">>
  ELSE (IF "to" \in emailSchemaIssues(v)
        THEN <<issueMessage(v.to, "Invalid email address")>> ELSE <<>>)
       \o (IF "subject" \in emailSchemaIssues(v)
           THEN <<issueMessage(v.subject, "Subject cannot be empty")>> ELSE <<>>)
       \o (IF "body" \in emailSchemaIssues(v)
           THEN <<issueMessage(v.body, "Body cannot be empty")>> ELSE <<>>)

\* The message of a thrown exception: a fixed text, and what the code appends
\* to it.
Message(text, details) == [text |-> text, details |-> details]

NoMessage == Message("", <<>>)

\* The message of the exception extractEmailFields throws.
extractEmailFieldsMessage(text, completion) ==
  LET status == extractEmailFields(text, completion).status
  IN  IF status = "InvalidInput" THEN Message("Text cannot be empty", <<>>)
      ELSE IF status = "ExtractionFailed"
           THEN Message("Failed to extract email fields: ",
                        IF completion.api # "ok" THEN <<"(the request's error)">>
                        ELSE <<"No response from GPT">>)
      ELSE IF status = "MalformedResponse"
           THEN Message("Invalid JSON response from GPT", <<>>)
      ELSE IF status = "InvalidDraft"
           THEN Message("Invalid response format from GPT", <<>>)
      ELSE NoMessage

\* The message of the exception sendEmail throws.
sendEmailMessage(email, transportOk) ==
  LET status == sendEmail(email, transportOk).status
  IN  IF status = "InvalidEmailData"
      THEN Message("Invalid email data: ",
                   emailSchemaMessages(Obj(Str(email.to), Str(email.subject),
                                           Str(email.body))))
      ELSE IF status = "DeliveryFailed"
           THEN Message("Email sending failed: ", <<"(the transport's error)">>)
      ELSE NoMessage

\* ------------------------------------------- WhisperService: a failed upload

\* The error axios.post rejects with: whether it is an AxiosError, the status
\* of the response (0: there was none), its code and its message.
UploadError(axios, status, code, message) ==
  [axios |-> axios, status |-> status, code |-> code, message |-> message]

NoUploadError == UploadError(FALSE, 0, "", "")

\* The branch of sendToWhisper's catch block an error takes.
uploadFailure(e) ==
  IF e.axios /\ e.status = 401 THEN "http401"
  ELSE IF e.axios /\ e.status = 429 THEN "http429"
  ELSE IF e.axios /\ e.code = "ECONNABORTED" THEN "timeout"
  ELSE "other"

\* The message of the Error sendToWhisper throws.
sendToWhisperMessage(e) ==
  CASE uploadFailure(e) = "http401" -> Message("Invalid OpenAI API key", <<>>)
    [] uploadFailure(e) = "http429" -> Message("OpenAI API rate limit exceeded", <<>>)
    [] uploadFailure(e) = "timeout" -> Message("OpenAI API request timed out", <<>>)
    [] OTHER -> Message("Failed to transcribe audio with Whisper", <<>>)

\* ---------------------------------------------- WhisperService: the upload

\* TranscriptionOptions: each of language, responseFormat, temperature (in
\* tenths) and prompt is supplied or not.
TranscriptionOptions(language, responseFormat, temperature, prompt) ==
  [language |-> language, responseFormat |-> responseFormat,
   temperature |-> temperature, prompt |-> prompt]

\* The default of transcribe and sendToWhisper: {}.
NoTranscriptionOptions ==
  TranscriptionOptions(Opt(FALSE, ""), Opt(FALSE, ""), Opt(FALSE, 0), Opt(FALSE, ""))

\* What `if (x)` makes of an optional string and of an optional number:
\* undefined, the empty string and 0 are false.
truthyString(o) == o.present /\ o.v # ""
truthyNumber(o) == o.present /\ o.v # 0

\* Number.prototype.toString of a temperature given in tenths: "0", "0.5", "1".
DigitOf == <<"0", "1", "2", "3", "4", "5", "6", "7", "8", "9">>

numberToString(t) ==
  IF t % 10 = 0
  THEN <<DigitOf[(t \div 10) + 1]>>
  ELSE <<DigitOf[(t \div 10) + 1], ".", DigitOf[(t % 10) + 1]>>

\* A field of the multipart form: appended or not, and its value.
FormField(present, v) == [present |-> present, v |-> v]

\* The form sendToWhisper posts: the file, the model, and the options whose
\* `if` passes.
Form(file, model, language, response_format, temperature, prompt) ==
  [file |-> file, model |-> model, language |-> language,
   response_format |-> response_format, temperature |-> temperature,
   prompt |-> prompt]

NoForm ==
  Form(NoPath, "", FormField(FALSE, ""), FormField(FALSE, ""), FormField(FALSE, <<>>),
       FormField(FALSE, ""))

form(mp3Path, options) ==
  Form(mp3Path, "whisper-1",
       IF truthyString(options.language)
       THEN FormField(TRUE, options.language.v) ELSE FormField(FALSE, ""),
       IF truthyString(options.responseFormat)
       THEN FormField(TRUE, options.responseFormat.v) ELSE FormField(FALSE, ""),
       IF truthyNumber(options.temperature)
       THEN FormField(TRUE, numberToString(options.temperature.v))
       ELSE FormField(FALSE, <<>>),
       IF truthyString(options.prompt)
       THEN FormField(TRUE, options.prompt.v) ELSE FormField(FALSE, ""))

\* ------------------------------------------------- EmailService: the options

\* An optional property: absent, or present with a value.
Absent == [present |-> FALSE, list |-> <<>>]
Array(list) == [present |-> TRUE, list |-> list]

\* The options of sendEmail: html ("absent", "true", "false"), cc and bcc
\* (arrays of addresses), attachments (an array of objects, each given here by
\* the filename property it has or lacks).
Options(html, cc, bcc, attachments) ==
  [html |-> html, cc |-> cc, bcc |-> bcc, attachments |-> attachments]

NoOptions == Options("absent", Absent, Absent, Absent)

\* error.errors.map(e => e.message) of the ZodError emailOptionsSchema.parse
\* throws: one message for each failing element, in the order of the schema.
addressMessages(array, custom) ==
  [k \in 1..Len(SelectSeq(array.list, LAMBDA a : ~IsEmail(a))) |-> custom]

attachmentMessages(array) ==
  [k \in 1..Len(SelectSeq(array.list, LAMBDA a : a.filename.t # "string")) |->
     issueMessage(SelectSeq(array.list, LAMBDA a : a.filename.t # "string")[k].filename, "")]

emailOptionsSchemaMessages(options) ==
  addressMessages(options.cc, "Invalid CC email address")
  \o addressMessages(options.bcc, "Invalid BCC email address")
  \o attachmentMessages(options.attachments)

\* What transporter.sendMail does with a message: it resolves with a message
\* identifier or rejects with an error.
Reply(ok, id, error) == [ok |-> ok, id |-> id, error |-> error]

NoReply == Reply(FALSE, "", "")

\* An optional field of the message handed to the transport.
Field(present, s) == [present |-> present, s |-> s]

\* mailOptions: from is the configured SMTP user; the body goes to html when
\* options.html is true and to text otherwise; cc, bcc and attachments are
\* spread in when the option is truthy, and an array always is.
mailOptionsDropsEmptyLists(email, options) ==
  [from |-> "SMTP_USER", to |-> email.to, subject |-> email.subject,
   html |-> Field(options.html = "true", IF options.html = "true" THEN email.body ELSE <<>>),
   text |-> Field(options.html # "true", IF options.html # "true" THEN email.body ELSE <<>>),
   cc |-> IF options.cc.list = <<>> THEN Absent ELSE options.cc,
   bcc |-> IF options.bcc.list = <<>> THEN Absent ELSE options.bcc,
   attachments |-> IF options.attachments.list = <<>> THEN Absent ELSE options.attachments]

mailOptions(email, options) ==
  [from |-> "SMTP_USER", to |-> email.to, subject |-> email.subject,
   html |-> Field(options.html = "true", IF options.html = "true" THEN email.body ELSE <<>>),
   text |-> Field(options.html # "true", IF options.html # "true" THEN email.body ELSE <<>>),
   cc |-> options.cc, bcc |-> options.bcc, attachments |-> options.attachments]

\* The message of the Error thrown when the transport rejects.
deliveryFailedMessageFixed(reply) == Message("Email sending failed", <<>>)

deliveryFailedMessage(reply) == Message("Email sending failed: ", <<reply.error>>)

\* What a call of sendEmail comes to: the error thrown ("ok": none) and its
\* message, the value returned, and the messages submitted to the transport.
Outcome(status, message, value, submitted) ==
  [status |-> status, message |-> message, value |-> value, submitted |-> submitted]

\* sendEmail(email, options): the draft is parsed, then the options, then the
\* message is built and submitted; the first ZodError ends the call.
sendEmailWith(email, options, reply) ==
  LET draft == emailSchemaMessages(Obj(Str(email.to), Str(email.subject), Str(email.body)))
      opts == emailOptionsSchemaMessages(options)
  IN  IF draft # <<>>
      THEN Outcome("InvalidEmailData", Message("Invalid email data: ", draft), "", <<>>)
      ELSE IF opts # <<>>
      THEN Outcome("InvalidEmailData", Message("Invalid email data: ", opts), "", <<>>)
      ELSE IF ~reply.ok
      THEN Outcome("DeliveryFailed", deliveryFailedMessage(reply), "",
                   <<mailOptions(email, options)>>)
      ELSE Outcome("ok", NoMessage, reply.id, <<mailOptions(email, options)>>)

\* ------------------------------------------------------------------- state

VARIABLES
  clock,       \* Date.now(), in milliseconds
  fs,          \* the files of the temporary directory
  apiKey,      \* whether OPENAI_API_KEY is configured
  nruns,       \* voice messages received; run r is the r-th one
  pc,          \* pc[r]: where run r's handleVoiceMessage is suspended
  chat,        \* chat[r]: the chat run r's voice message came from
  audio,       \* audio[r]: the path of the audio file run r transcribes
  mp3,         \* mp3[r]: the temporary MP3 of run r's transcribe call, once created
  transcript,  \* transcript[r]: what transcribe returned to run r
  draft,       \* draft[r]: emailInfo.data, what extractEmailFields returned to run r
  err,         \* err[r]: the error run r's failing call threw
  trace,       \* trace[r]: the external calls and replies of run r, in order
  handlers,    \* the bot.on('message') listeners, by the run that attached each
  texts,       \* the text messages received, with what the bot did with each
  pending,     \* pending[c]: the run whose draft awaits chat c's yes/no (0: none)
  call,        \* one call of a service method on its own: arguments and outcome
  smtp         \* the EmailService instance: configuration, construction, transport

vars ==
  <<clock, fs, apiKey, nruns, pc, chat, audio, mp3, transcript, draft, err,
    trace, handlers, texts, pending, call, smtp>>

Runs == 1..MaxRuns
Chats == {1, 2}
FileIds == {"f1", "f2"}

YES == <<"y", "e", "s">>
NO == <<"n", "o">>

\* The text messages users send: "Yes" as a phone keyboard capitalises it,
\* "no", and something else.
Texts == {<<"Y", "e", "s">>, NO, <<"o", "k">>}

\* The sizes a file can have: empty, small, exactly the ceiling, above it.
Sizes == {0, 1, maxFileSize, maxFileSize + 1}

\* The sizes of the voice files Telegram serves.
DownloadSizes == {0, 1, maxFileSize + 1}

\* The transcripts the transcription endpoint returns.
Transcripts == {<<" ">>, <<"h", "i">>}

ValidTo == <<"j", "@", "x", ".", "i", "o">>

\* The chat completions the language model returns.
Completions ==
  {Completion("error", Content("absent", NonObject)),
   Completion("ok", Content("absent", NonObject)),
   Completion("ok", Content("empty", NonObject)),
   Completion("ok", Content("text", NonObject)),
   Completion("ok", Content("json", NonObject)),
   Completion("ok", Content("json", Obj(Str(<<"j", "@", "x">>), Str(<<"s">>), Str(<<"b">>)))),
   Completion("ok", Content("json", Obj(Str(<<"j", ".", "i", "o">>), Str(<<"s">>), Str(<<"b">>)))),
   Completion("ok", Content("json", Obj(NotAString, Str(<<"s">>), Str(<<"b">>)))),
   Completion("ok", Content("json", Obj(Str(ValidTo), Str(<<>>), Str(<<"b">>)))),
   Completion("ok", Content("json", Obj(Str(ValidTo), Str(<<"s">>), Undefined))),
   Completion("ok", Content("json", Obj(Str(ValidTo), Str(<<"s">>), Str(<<"b">>)))),
   Completion("ok", Content("json", Obj(Str(<<"a", ".", "b", "@", "c", "-", "d", ".", "x", ".", "U", "K">>),
                                        Str(<<" ">>), Str(<<"b">>))))}

\* A call of a service method on its own: the method, its arguments and what
\* its collaborator does, whether it has returned or thrown, and then its
\* outcome and the message of the exception.
Call(fn, text, completion, email, transportOk, returned, result, message) ==
  [fn |-> fn, text |-> text, completion |-> completion, email |-> email,
   transportOk |-> transportOk, returned |-> returned, result |-> result,
   message |-> message, options |-> NoOptions, reply |-> NoReply, value |-> "",
   submitted |-> <<>>, upload |-> NoUploadError, config |-> NoConfig,
   exception |-> "none", request |-> NoRequest, mp3Path |-> NoPath,
   transcription |-> NoTranscriptionOptions, form |-> NoForm]

NoResult == Result("none", NoDraft, FALSE)

NoCompletion == Completion("error", Content("absent", NonObject))

NoCall == Call("none", <<>>, NoCompletion, NoDraft, FALSE, FALSE, NoResult, NoMessage)

\* The state of a run no voice message has started yet.
InitRuns ==
  /\ pc = [r \in Runs |-> "idle"]
  /\ chat = [r \in Runs |-> 0]
  /\ audio = [r \in Runs |-> NoPath]
  /\ mp3 = [r \in Runs |-> NoPath]
  /\ transcript = [r \in Runs |-> <<>>]
  /\ draft = [r \in Runs |-> NoDraft]
  /\ err = [r \in Runs |-> "none"]
  /\ trace = [r \in Runs |-> <<>>]

\* After construction and onModuleInit: an empty temporary directory, the
\* start, help and voice handlers attached, no message listener. GptService's
\* constructor throws without OPENAI_API_KEY, so a running bot has the key.
Init ==
  /\ clock = 0
  /\ fs = {}
  /\ apiKey = TRUE
  /\ nruns = 0
  /\ InitRuns
  /\ handlers = <<>>
  /\ texts = <<>>
  /\ pending = [c \in Chats |-> 0]
  /\ call = NoCall
  /\ smtp = RunningSmtp

\* Run r moves to `to`, having done `events`; nothing else of it changes.
Step(r, to, events) ==
  /\ pc' = [pc EXCEPT ![r] = to]
  /\ trace' = [trace EXCEPT ![r] = @ \o events]

\* Run r's call threw `e`: control goes to `to`.
Throw(r, to, e, events) ==
  /\ Step(r, to, events)
  /\ err' = [err EXCEPT ![r] = e]

\* The millisecond clock advances.
Tick ==
  /\ clock < MaxClock
  /\ clock' = clock + 1
  /\ UNCHANGED <<fs, apiKey, call, smtp, nruns, pc, chat, audio, mp3, transcript, draft,
                 err, trace, handlers, texts, pending>>

\* ------------------------------------------- TelegramService: voice messages

\* The finally block of handleVoiceMessage: the downloaded file is removed if
\* it is there.
cleanupSkipped(files, p) == files

cleanup(files, p) == IF existsSync(files, p) THEN unlinkSync(files, p) ELSE files

\* A voice message with file identifier f arrives from chat c: bot.on('voice')
\* calls handleVoiceMessage, which first asks for the file's URL. Chats and file
\* identifiers are interchangeable, so the first voice message is taken to be
\* chat 1's, with file f1; the later ones are any chat's, with any file.
VoiceMessage(c, f) ==
  /\ nruns < MaxRuns
  /\ nruns = 0 => (c = 1 /\ f = "f1")
  /\ nruns' = nruns + 1
  /\ pc' = [pc EXCEPT ![nruns + 1] = "getFileUrl"]
  /\ chat' = [chat EXCEPT ![nruns + 1] = c]
  /\ audio' = [audio EXCEPT ![nruns + 1] = Path(f, -1, OggExt)]
  /\ UNCHANGED <<clock, fs, apiKey, call, smtp, mp3, transcript, draft, err, trace,
                 handlers, texts, pending>>

\* getFileUrl answers. It is called before the try block: its Error ('Failed
\* to retrieve voice message from Telegram') leaves handleVoiceMessage at once.
GetFileUrlReturnsUndefined(r) ==
  /\ pc[r] = "getFileUrl"
  /\ \/ /\ Step(r, "replyProcessing", <<"getFile">>)
        /\ UNCHANGED err
     \/ Throw(r, "replyProcessing", "FileResolutionFailed", <<"getFile">>)
  /\ UNCHANGED <<clock, fs, apiKey, call, smtp, nruns, chat, audio, mp3, transcript,
                 draft, handlers, texts, pending>>

GetFileUrl(r) ==
  /\ pc[r] = "getFileUrl"
  /\ \/ /\ Step(r, "replyProcessing", <<"getFile">>)
        /\ UNCHANGED err
     \/ Throw(r, "voiceCatch", "FileResolutionFailed", <<"getFile">>)
  /\ UNCHANGED <<clock, fs, apiKey, call, smtp, nruns, chat, audio, mp3, transcript, draft,
                 handlers, texts, pending>>

\* ctx.reply('Processing your voice message...'), inside the try block.
ReplyProcessing(r) ==
  /\ pc[r] = "replyProcessing"
  /\ \/ /\ Step(r, "download", <<"reply:processing">>)
        /\ UNCHANGED err
     \/ Throw(r, "catch", "ReplyFailed", <<>>)
  /\ UNCHANGED <<clock, fs, apiKey, call, smtp, nruns, chat, audio, mp3, transcript, draft,
                 handlers, texts, pending>>

\* downloadFile, up to the response: createWriteStream creates (or truncates)
\* the destination, then the request is answered or fails ('Failed to download
\* voice message').
DownloadIgnoresFailure(r) ==
  /\ pc[r] = "download"
  /\ fs' = writeFile(fs, audio[r], r, 0)
  /\ \/ /\ Step(r, "downloadBody", <<"download">>)
        /\ UNCHANGED err
     \/ Throw(r, "downloadBody", "DownloadFailed", <<"download">>)
  /\ UNCHANGED <<clock, apiKey, call, smtp, nruns, chat, audio, mp3, transcript,
                 draft, handlers, texts, pending>>

Download(r) ==
  /\ pc[r] = "download"
  /\ fs' = writeFile(fs, audio[r], r, 0)
  /\ \/ /\ Step(r, "downloadBody", <<"download">>)
        /\ UNCHANGED err
     \/ Throw(r, "catch", "DownloadFailed", <<"download">>)
  /\ UNCHANGED <<clock, apiKey, call, smtp, nruns, chat, audio, mp3, transcript, draft,
                 handlers, texts, pending>>

\* downloadFile, the body piped into the file: the writer finishes, or the
\* writer fails (the promise rejects with the writer's error), or the response
\* stream fails, which the pipe forwards to nobody: the promise never settles.
DownloadBody(r) ==
  /\ pc[r] = "downloadBody"
  /\ \/ \E size \in DownloadSizes :
          /\ fs' = IF existsSync(fs, audio[r])
                   THEN writeFile(fs, audio[r],
                                  (CHOOSE f \in fs : f.path = audio[r]).owner, size)
                   ELSE fs
          /\ Step(r, "transcribe", <<>>)
          /\ UNCHANGED err
     \/ /\ Throw(r, "catch", "WriteError", <<>>)
        /\ UNCHANGED fs
     \/ /\ Step(r, "hung", <<>>)
        /\ UNCHANGED <<fs, err>>
  /\ UNCHANGED <<clock, apiKey, call, smtp, nruns, chat, audio, mp3, transcript, draft,
                 handlers, texts, pending>>

\* Whether transcribe hands the file to convertToMp3: every file but one
\* whose extension, lowercased, is .mp3.
needsConversionCaseSensitive(p) == p.ext # Mp3Ext

needsConversion(p) == toLowerCase(p.ext) # Mp3Ext

\* transcribe, up to the temporary MP3: validateAudioFile, getMp3Path, then
\* convertToMp3, or copyFileSync for a file that is an MP3 already.
Transcribe(r) ==
  /\ pc[r] = "transcribe"
  /\ LET v == validateAudioFile(fs, audio[r])
         out == getMp3Path(audio[r], clock)
     IN  IF v # "ok"
         THEN /\ Throw(r, "catch", v, <<>>)
              /\ UNCHANGED <<fs, mp3>>
         ELSE IF needsConversion(audio[r])
         THEN \E o \in ConvertOutcomes :
                /\ fs' = IF o = "failedClean" THEN fs ELSE writeFile(fs, out, r, 1)
                /\ mp3' = IF o = "failedClean" THEN mp3 ELSE [mp3 EXCEPT ![r] = out]
                /\ IF o = "converted"
                   THEN Step(r, "upload", <<"ffmpeg">>) /\ UNCHANGED err
                   ELSE Throw(r, "catch", "ConversionFailed", <<"ffmpeg">>)
         ELSE /\ fs' = writeFile(fs, out, r, statSize(fs, audio[r]))
              /\ mp3' = [mp3 EXCEPT ![r] = out]
              /\ Step(r, "upload", <<"copy">>)
              /\ UNCHANGED err
  /\ UNCHANGED <<clock, apiKey, call, smtp, nruns, chat, audio, transcript, draft,
                 handlers, texts, pending>>

\* transcribe, from sendToWhisper on: without an API key nothing is sent; the
\* upload succeeds, and the temporary MP3 is removed and the text returned, or
\* it fails, and the translated Error leaves transcribe.
Upload(r) ==
  /\ pc[r] = "upload"
  /\ IF ~apiKey
     THEN /\ Throw(r, "catch", "MissingApiKey", <<>>)
          /\ UNCHANGED <<fs, transcript>>
     ELSE \/ \E t \in Transcripts :
               /\ transcript' = [transcript EXCEPT ![r] = t]
               /\ fs' = cleanup(fs, mp3[r])
               /\ Step(r, "replyTranscription", <<"whisper">>)
               /\ UNCHANGED err
          \/ \E o \in UploadFailures :
               /\ Throw(r, "catch", whisperError(o), <<"whisper">>)
               /\ UNCHANGED <<fs, transcript>>
  /\ UNCHANGED <<clock, apiKey, call, smtp, nruns, chat, audio, mp3, draft, handlers, texts,
                 pending>>

\* ctx.reply with the transcription.
ReplyTranscription(r) ==
  /\ pc[r] = "replyTranscription"
  /\ \/ /\ Step(r, "extract", <<"reply:transcription">>)
        /\ UNCHANGED err
     \/ Throw(r, "catch", "ReplyFailed", <<>>)
  /\ UNCHANGED <<clock, fs, apiKey, call, smtp, nruns, chat, audio, mp3, transcript, draft,
                 handlers, texts, pending>>

\* extractEmailFields(transcription), inside the inner try block.
Extract(r) ==
  /\ pc[r] = "extract"
  /\ \E c \in Completions :
       LET res == extractEmailFields(transcript[r], c)
           events == IF res.requested THEN <<"gpt">> ELSE <<>>
       IN  IF res.status = "ok"
           THEN /\ draft' = [draft EXCEPT ![r] = res.data]
                /\ Step(r, "replyDraft", events)
                /\ UNCHANGED err
           ELSE /\ Throw(r, "noEmail", res.status, events)
                /\ UNCHANGED draft
  /\ UNCHANGED <<clock, fs, apiKey, call, smtp, nruns, chat, audio, mp3, transcript,
                 handlers, texts, pending>>

\* ctx.reply with the draft and the yes/no question; once it is sent,
\* bot.on('message', ...) attaches a listener that holds this run's emailInfo,
\* and the finally block runs. A failed reply is caught by the inner catch.
ReplyDraft(r) ==
  /\ pc[r] = "replyDraft"
  /\ \/ /\ handlers' = Append(handlers, r)
        /\ pending' = [pending EXCEPT ![chat[r]] = r]
        /\ fs' = cleanup(fs, audio[r])
        /\ Step(r, "done", <<"reply:draft", "listen", "finally">>)
        /\ UNCHANGED err
     \/ /\ Throw(r, "noEmail", "ReplyFailed", <<>>)
        /\ UNCHANGED <<handlers, pending, fs>>
  /\ UNCHANGED <<clock, apiKey, call, smtp, nruns, chat, audio, mp3, transcript, draft,
                 texts>>

\* The inner catch: ctx.reply('No email information found in the message'),
\* then the finally block.
NoEmailRethrows(r) ==
  /\ pc[r] = "noEmail"
  /\ Step(r, "catch", <<"reply:noEmail">>)
  /\ UNCHANGED <<clock, fs, apiKey, call, smtp, nruns, chat, audio, mp3, transcript,
                 draft, err, handlers, texts, pending>>

NoEmail(r) ==
  /\ pc[r] = "noEmail"
  /\ fs' = cleanup(fs, audio[r])
  /\ Step(r, "done", <<"reply:noEmail", "finally">>)
  /\ UNCHANGED <<clock, apiKey, call, smtp, nruns, chat, audio, mp3, transcript, draft, err,
                 handlers, texts, pending>>

\* The outer catch: ctx.reply('Failed to process your voice message...'), the
\* finally block, and the error thrown on to bot.on('voice').
CatchSilent(r) ==
  /\ pc[r] = "catch"
  /\ fs' = cleanup(fs, audio[r])
  /\ Step(r, "voiceCatch", <<"finally">>)
  /\ UNCHANGED <<clock, apiKey, call, smtp, nruns, chat, audio, mp3, transcript, draft,
                 err, handlers, texts, pending>>

Catch(r) ==
  /\ pc[r] = "catch"
  /\ fs' = cleanup(fs, audio[r])
  /\ Step(r, "voiceCatch", <<"reply:failed", "finally">>)
  /\ UNCHANGED <<clock, apiKey, call, smtp, nruns, chat, audio, mp3, transcript, draft, err,
                 handlers, texts, pending>>

\* The catch of bot.on('voice'): ctx.reply('Sorry, I encountered an error...').
VoiceCatchSilent(r) ==
  /\ pc[r] = "voiceCatch"
  /\ Step(r, "failed", <<>>)
  /\ UNCHANGED <<clock, fs, apiKey, call, smtp, nruns, chat, audio, mp3, transcript,
                 draft, err, handlers, texts, pending>>

VoiceCatch(r) ==
  /\ pc[r] = "voiceCatch"
  /\ Step(r, "failed", <<"reply:sorry">>)
  /\ UNCHANGED <<clock, fs, apiKey, call, smtp, nruns, chat, audio, mp3, transcript, draft,
                 err, handlers, texts, pending>>

\* -------------------------------------------- TelegramService: text messages

\* The listener Telegraf runs for a text message. bot.on appends each listener
\* to the middleware chain (Composer.use composes it after the existing ones),
\* an update walks the chain in that order, and a listener that does not call
\* next() ends the walk: the message listeners never call it, so the one
\* attached first handles every text message (0: no listener attached).
dispatch(hs) == IF hs = <<>> THEN 0 ELSE Head(hs)

\* What the message listener does with a text.
messageHandlerBranchSendUnlessNo(text) ==
  IF toLowerCase(text) = NO THEN "cancel" ELSE "send"

messageHandlerBranch(text) ==
  IF toLowerCase(text) = YES THEN "send"
  ELSE IF toLowerCase(text) = NO THEN "cancel"
  ELSE "reprompt"

\* The reply of the 'yes' branch: 'Email sent successfully!' when sendEmail
\* returned, 'Failed to send email. Please try again.' from the catch around it.
sendReplyAlwaysSent(status) == "sent"

sendReply(status) == IF status = "ok" THEN "sent" ELSE "sendFailed"

\* What the bot did with one text message: the chat and the text, the run of
\* the listener that handled it, the draft that awaited this chat's answer when
\* it arrived (0: none), the branch taken, the draft handed to sendEmail and
\* what sendEmail returned ("none": not called), and the reply to the chat.
TextRecord(c, text, h, p, branch, sent, result, reply) ==
  [chat |-> c, text |-> text, handler |-> h, pending |-> p, branch |-> branch,
   sent |-> sent, result |-> result, reply |-> reply]

\* A text message arrives from chat c while a listener is attached (without
\* one the update falls through the chain and nothing happens).
TextMessageRemovesListener(c, text) ==
  /\ Len(texts) < MaxTexts
  /\ dispatch(handlers) # 0
  /\ LET h == dispatch(handlers)
         branch == messageHandlerBranch(text)
     IN  /\ \/ /\ branch = "send"
               /\ \E transportOk \in BOOLEAN :
                    LET res == sendEmail(draft[h], transportOk)
                    IN  texts' = Append(texts,
                          TextRecord(c, text, h, pending[c], branch, draft[h],
                                     res.status, sendReply(res.status)))
            \/ /\ branch = "cancel"
               /\ texts' = Append(texts,
                    TextRecord(c, text, h, pending[c], branch, NoDraft, "none",
                               "cancelled"))
            \/ /\ branch = "reprompt"
               /\ texts' = Append(texts,
                    TextRecord(c, text, h, pending[c], branch, NoDraft, "none",
                               "reprompt"))
         /\ pending' = IF toLowerCase(text) \in {YES, NO}
                       THEN [pending EXCEPT ![c] = 0]
                       ELSE pending
  /\ handlers' = IF messageHandlerBranch(text) = "reprompt" THEN handlers ELSE Tail(handlers)
  /\ UNCHANGED <<clock, fs, apiKey, call, smtp, nruns, pc, chat, audio, mp3, transcript,
                 draft, err, trace>>

TextMessage(c, text) ==
  /\ Len(texts) < MaxTexts
  /\ dispatch(handlers) # 0
  /\ LET h == dispatch(handlers)
         branch == messageHandlerBranch(text)
     IN  /\ \/ /\ branch = "send"
               /\ \E transportOk \in BOOLEAN :
                    LET res == sendEmail(draft[h], transportOk)
                    IN  texts' = Append(texts,
                          TextRecord(c, text, h, pending[c], branch, draft[h],
                                     res.status, sendReply(res.status)))
            \/ /\ branch = "cancel"
               /\ texts' = Append(texts,
                    TextRecord(c, text, h, pending[c], branch, NoDraft, "none",
                               "cancelled"))
            \/ /\ branch = "reprompt"
               /\ texts' = Append(texts,
                    TextRecord(c, text, h, pending[c], branch, NoDraft, "none",
                               "reprompt"))
         /\ pending' = IF toLowerCase(text) \in {YES, NO}
                       THEN [pending EXCEPT ![c] = 0]
                       ELSE pending
  /\ UNCHANGED <<clock, fs, apiKey, call, smtp, nruns, pc, chat, audio, mp3, transcript,
                 draft, err, trace, handlers>>

\* ------------------------------------------------------------ specifications

Next ==
  \/ \E c \in Chats, f \in FileIds : VoiceMessage(c, f)
  \/ \E r \in Runs : GetFileUrl(r)
  \/ \E r \in Runs : ReplyProcessing(r)
  \/ \E r \in Runs : Download(r)
  \/ \E r \in Runs : DownloadBody(r)
  \/ \E r \in Runs : Transcribe(r)
  \/ \E r \in Runs : Upload(r)
  \/ \E r \in Runs : ReplyTranscription(r)
  \/ \E r \in Runs : Extract(r)
  \/ \E r \in Runs : ReplyDraft(r)
  \/ \E r \in Runs : NoEmail(r)
  \/ \E r \in Runs : Catch(r)
  \/ \E r \in Runs : VoiceCatch(r)
  \/ \E c \in Chats, text \in Texts : TextMessage(c, text)
  \/ Tick

\* The bot: voice and text messages arriving in any order and number.
Spec == Init /\ [][Next]_vars

\* The extensions of the files handed to transcribe.
Extensions ==
  supportedFormats \cup
  {<<".", "O", "G", "G">>, <<".", "M", "p", "3">>, <<".", "f", "l", "a", "c">>,
   <<".", "t", "x", "t">>, <<>>}

\* One call of transcribe on any path: the file may be missing, of any size
\* and any extension, and the API key may be absent.
InitTranscribe ==
  /\ clock = 0
  /\ apiKey \in BOOLEAN
  /\ nruns = 1
  /\ \E ext \in Extensions :
       /\ audio = [r \in Runs |-> IF r = 1 THEN Path("a", -1, ext) ELSE NoPath]
       /\ fs \in {{}} \cup {{File(Path("a", -1, ext), 0, size)} : size \in Sizes}
  /\ pc = [r \in Runs |-> IF r = 1 THEN "transcribe" ELSE "idle"]
  /\ chat = [r \in Runs |-> 0]
  /\ mp3 = [r \in Runs |-> NoPath]
  /\ transcript = [r \in Runs |-> <<>>]
  /\ draft = [r \in Runs |-> NoDraft]
  /\ err = [r \in Runs |-> "none"]
  /\ trace = [r \in Runs |-> <<>>]
  /\ handlers = <<>>
  /\ texts = <<>>
  /\ pending = [c \in Chats |-> 0]
  /\ call = NoCall
  /\ smtp = RunningSmtp

NextTranscribe ==
  \/ Transcribe(1)
  \/ Upload(1)
  \/ Tick

SpecTranscribe == InitTranscribe /\ [][NextTranscribe]_vars

\* The texts handed to extractEmailFields.
CallTexts == {<<>>, <<" ">>, <<"h", "i">>, <<" ", "h", "i", " ">>}

\* The drafts handed to sendEmail.
CallEmails ==
  {Draft(to, subject, body) :
     to \in {ValidTo, <<"j", "@", "x">>, <<"j", ".", "i", "o">>, <<>>},
     subject \in {<<>>, <<"s">>},
     body \in {<<>>, <<"b">>}}

\* The configs handed to extractEmailFields: none, temperatures below, at
\* and above the ends of the range, other fields alone, all fields.
CallConfigs ==
  {NoConfig,
   GptConfig(Opt(FALSE, ""), Opt(TRUE, -1), Opt(FALSE, 0)),
   GptConfig(Opt(FALSE, ""), Opt(TRUE, 0), Opt(FALSE, 0)),
   GptConfig(Opt(FALSE, ""), Opt(TRUE, 20), Opt(FALSE, 0)),
   GptConfig(Opt(FALSE, ""), Opt(TRUE, 21), Opt(TRUE, 50)),
   GptConfig(Opt(TRUE, "gpt-3.5-turbo"), Opt(FALSE, 0), Opt(TRUE, 50)),
   GptConfig(Opt(TRUE, "gpt-3.5-turbo"), Opt(TRUE, 3), Opt(TRUE, 50))}

\* The options handed to sendEmail.
CallOptions ==
  {NoOptions,
   Options("true", Absent, Absent, Absent),
   Options("false", Array(<<ValidTo>>), Array(<<>>), Absent),
   Options("absent", Array(<<ValidTo, <<"c">>>>), Absent, Absent),
   Options("absent", Array(<<<<"c">>>>), Array(<<<<"b">>>>), Absent),
   Options("absent", Absent, Absent, Array(<<[filename |-> Str(<<"f">>)]>>)),
   Options("absent", Absent, Absent, Array(<<[filename |-> Undefined]>>))}

\* What the transport does with a submission.
Replies ==
  {Reply(TRUE, "id1", ""), Reply(TRUE, "id2", ""),
   Reply(FALSE, "", "ECONNREFUSED"), Reply(FALSE, "", "550 rejected")}

\* The errors an upload to the transcription endpoint fails with: responses
\* with a status, requests without a response (timed out, connection reset),
\* and errors that are not axios's.
UploadErrors ==
  {UploadError(TRUE, status, code, message) :
     status \in {401, 429, 500}, code \in {"ERR_BAD_REQUEST"},
     message \in {"Request failed", "Server had an error"}}
  \cup
  {UploadError(TRUE, 0, code, message) :
     code \in {"ECONNABORTED", "ECONNRESET"},
     message \in {"timeout of 30000ms exceeded", "socket hang up"}}
  \cup
  {UploadError(FALSE, 0, "", "form-data: stream error")}

\* The options handed to sendToWhisper: a language or none, a response format
\* or none, no temperature or one at the ends or inside its range 0..1, no
\* prompt or a hint.
CallTranscriptions ==
  {TranscriptionOptions(language, responseFormat, temperature, prompt) :
     language \in {Opt(FALSE, ""), Opt(TRUE, "en")},
     responseFormat \in {Opt(FALSE, ""), Opt(TRUE, "text")},
     temperature \in {Opt(FALSE, 0), Opt(TRUE, 0), Opt(TRUE, 5), Opt(TRUE, 10)},
     prompt \in {Opt(FALSE, ""), Opt(TRUE, "names")}}

\* One call of extractEmailFields on any text, answered by any completion, or
\* one call of sendEmail on any draft, with a transport that works or fails.
InitCalls ==
  /\ clock = 0
  /\ fs = {}
  /\ apiKey = TRUE
  /\ nruns = 0
  /\ InitRuns
  /\ handlers = <<>>
  /\ texts = <<>>
  /\ pending = [c \in Chats |-> 0]
  /\ smtp = RunningSmtp
  /\ call \in
       {[Call("extractEmailFields", text, completion, NoDraft, FALSE, FALSE,
              NoResult, NoMessage) EXCEPT !.config = config] :
          text \in CallTexts, completion \in Completions, config \in CallConfigs}
       \cup
       {[Call("sendEmail", <<>>, NoCompletion, email, reply.ok, FALSE,
              NoResult, NoMessage) EXCEPT !.options = options, !.reply = reply] :
          email \in CallEmails, options \in CallOptions, reply \in Replies}
       \cup
       {[Call("sendToWhisper", <<>>, NoCompletion, NoDraft, FALSE, FALSE,
              NoResult, NoMessage)
            EXCEPT !.upload = e, !.transcription = options,
                   !.mp3Path = Path("f1", 0, Mp3Ext)] :
          e \in UploadErrors, options \in CallTranscriptions}

\* extractEmailFields returns or throws.
ExtractCall ==
  /\ call.fn = "extractEmailFields"
  /\ ~call.returned
  /\ call' = [call EXCEPT
                !.returned = TRUE,
                !.result =
                  IF extractEmailFieldsWith(call.text, call.config, call.completion).status
                       = "InvalidConfig"
                  THEN Result("InvalidConfig", NoDraft, FALSE)
                  ELSE extractEmailFields(call.text, call.completion),
                !.message =
                  IF extractEmailFieldsWith(call.text, call.config, call.completion).status
                       = "InvalidConfig"
                  THEN Message("ZodError", <<"temperature">>)
                  ELSE extractEmailFieldsMessage(call.text, call.completion),
                !.exception =
                  extractEmailFieldsWith(call.text, call.config, call.completion).exception,
                !.request =
                  extractEmailFieldsWith(call.text, call.config, call.completion).request]
  /\ UNCHANGED <<clock, fs, apiKey, nruns, pc, chat, audio, mp3, transcript,
                 draft, err, trace, handlers, texts, pending, smtp>>

\* sendEmail returns or throws.
SendCall ==
  /\ call.fn = "sendEmail"
  /\ ~call.returned
  /\ call' = [call EXCEPT
                !.returned = TRUE,
                !.result = Result(sendEmailWith(call.email, call.options, call.reply).status,
                                  call.email,
                                  sendEmailWith(call.email, call.options, call.reply).submitted # <<>>),
                !.message = sendEmailWith(call.email, call.options, call.reply).message,
                !.value = sendEmailWith(call.email, call.options, call.reply).value,
                !.submitted = sendEmailWith(call.email, call.options, call.reply).submitted]
  /\ UNCHANGED <<clock, fs, apiKey, nruns, pc, chat, audio, mp3, transcript,
                 draft, err, trace, handlers, texts, pending, smtp>>

\* sendToWhisper builds the form and posts it; the upload failing with
\* call.upload, it throws.
UploadCall ==
  /\ call.fn = "sendToWhisper"
  /\ ~call.returned
  /\ call' = [call EXCEPT
                !.returned = TRUE,
                !.form = form(call.mp3Path, call.transcription),
                !.result = Result(whisperError(uploadFailure(call.upload)), NoDraft, TRUE),
                !.message = sendToWhisperMessage(call.upload)]
  /\ UNCHANGED <<clock, fs, apiKey, nruns, pc, chat, audio, mp3, transcript,
                 draft, err, trace, handlers, texts, pending, smtp>>

NextCalls ==
  \/ ExtractCall
  \/ SendCall
  \/ UploadCall

SpecCalls == InitCalls /\ [][NextCalls]_vars

\* The process starts with any configuration; EmailService is not yet
\* constructed.
InitStartup ==
  /\ clock = 0
  /\ fs = {}
  /\ apiKey = TRUE
  /\ nruns = 0
  /\ InitRuns
  /\ handlers = <<>>
  /\ texts = <<>>
  /\ pending = [c \in Chats |-> 0]
  /\ call = NoCall
  /\ smtp \in {Smtp(host, port, user, pass, "new", "none", FALSE, "none", TRUE, <<>>) :
                 host \in ConfigValues, port \in ConfigValues,
                 user \in ConfigValues, pass \in ConfigValues}

\* The constructor of EmailService: validateSmtpConfig throws, and the
\* bootstrap of the application fails with it (process.exit(1)), or the
\* transport is created, verifyConnection() is called without being awaited,
\* and the constructor returns.
ConstructEmailService ==
  /\ smtp.state = "new"
  /\ LET v == validateSmtpConfig(smtp.host, smtp.port, smtp.user, smtp.pass)
     IN  smtp' = IF v # "ok"
                 THEN [smtp EXCEPT !.state = "threw", !.error = v, !.alive = FALSE]
                 ELSE [smtp EXCEPT !.state = "constructed", !.transport = TRUE,
                                   !.verify = "pending"]
  /\ UNCHANGED <<clock, fs, apiKey, call, nruns, pc, chat, audio, mp3, transcript,
                 draft, err, trace, handlers, texts, pending>>

\* transporter.verify() settles. When it fails verifyConnection throws inside
\* a promise nobody holds: an unhandled rejection, which ends the process on a
\* runtime that throws on unhandled rejections and is only warned about on one
\* that does not.
VerifyConnection ==
  /\ smtp.verify = "pending"
  /\ smtp.alive
  /\ \/ smtp' = [smtp EXCEPT !.verify = "ok"]
     \/ \E alive \in BOOLEAN : smtp' = [smtp EXCEPT !.verify = "failed", !.alive = alive]
  /\ UNCHANGED <<clock, fs, apiKey, call, nruns, pc, chat, audio, mp3, transcript,
                 draft, err, trace, handlers, texts, pending>>

\* sendEmail is called on the constructed service: the bot is launched by
\* onModuleInit whatever verifyConnection is doing.
SendOnTransport ==
  /\ smtp.state = "constructed"
  /\ smtp.alive
  /\ Len(smtp.sent) < MaxSends
  /\ smtp' = [smtp EXCEPT !.sent = Append(@, smtp.verify)]
  /\ UNCHANGED <<clock, fs, apiKey, call, nruns, pc, chat, audio, mp3, transcript,
                 draft, err, trace, handlers, texts, pending>>

NextStartup ==
  \/ ConstructEmailService
  \/ VerifyConnection
  \/ SendOnTransport

SpecStartup == InitStartup /\ [][NextStartup]_vars

\* ------------------------------------------------------------------ claims

\* handleVoiceMessage of run r has returned or thrown, and bot.on('voice') is
\* done with it.
Ended(r) == pc[r] \in {"done", "failed"}

Did(r, event) == \E k \in 1..Len(trace[r]) : trace[r][k] = event

\* C1: once a run that reached the download has ended, however it ended, the
\* voice file it downloaded is gone: any file at <tmp>/<fileId>.ogg is one that
\* another run, still in flight, has created since.
C1_DownloadedFileRemoved ==
  \A r \in Runs :
    Ended(r) =>
      \A f \in fs : f.path = audio[r] => (f.owner # r /\ ~Ended(f.owner))

\* C1's case: one run has ended by a failed download and another by presenting
\* its draft, both after creating their voice file.
C1_Witness ==
  \E r, q \in Runs :
    /\ pc[r] = "failed" /\ err[r] = "DownloadFailed"
    /\ pc[q] = "done" /\ Did(q, "download") /\ Did(q, "listen")

\* transcribe has returned (the run goes on to reply with the text) or thrown
\* (the run is in handleVoiceMessage's catch). Meant for SpecTranscribe, where
\* a run is one call of transcribe.
TranscribeReturned(r) == pc[r] = "replyTranscription"
TranscribeThrew(r) == pc[r] = "catch"

\* C2: when transcribe has returned or thrown after its conversion or its copy
\* has created the temporary MP3, the temporary MP3 does not exist any more.
C2_TempMp3RemovedOnEveryExit ==
  \A r \in Runs :
    /\ TranscribeReturned(r) \/ TranscribeThrew(r)
    /\ Did(r, "copy") \/ (Did(r, "ffmpeg") /\ err[r] # "ConversionFailed")
    => ~existsSync(fs, mp3[r])

\* sendEmail was called for text message i.
Delivery(i) == texts[i].result # "none"

\* C3: once a chat has answered "no" to the draft awaiting its answer, the chat
\* has been told of the cancellation and no later message makes sendEmail run
\* with that draft.
C3_NoDeliveryAfterNo ==
  \A i \in 1..Len(texts) :
    (toLowerCase(texts[i].text) = NO /\ texts[i].pending # 0) =>
      /\ texts[i].reply = "cancelled"
      /\ \A j \in (i + 1)..Len(texts) :
           ~(Delivery(j) /\ texts[j].handler = texts[i].pending)

\* C4: a "yes" received while a draft awaits the chat's answer makes sendEmail
\* run with exactly that draft, the one most recently presented to the chat.
C4_YesDeliversPendingDraft ==
  \A i \in 1..Len(texts) :
    (toLowerCase(texts[i].text) = YES /\ texts[i].pending # 0) =>
      /\ Delivery(i)
      /\ texts[i].handler = texts[i].pending
      /\ texts[i].sent = draft[texts[i].pending]

\* C5: whenever sendEmail is called, it is for a text message that reads "yes"
\* in any letter case, with the draft of a run that had presented it before the
\* message arrived.
C5_DeliveryOnlyAfterConfirmation ==
  [][\A i \in (Len(texts) + 1)..Len(texts') :
       texts'[i].result # "none" =>
         /\ toLowerCase(texts'[i].text) = YES
         /\ texts'[i].handler \in Runs
         /\ Did(texts'[i].handler, "reply:draft")
         /\ texts'[i].sent = draft[texts'[i].handler]]_vars

\* C5's case: a draft has been delivered.
C5_Witness == \E i \in 1..Len(texts) : texts[i].result = "ok"

\* C6: after a draft has been delivered on a "yes", no later message makes
\* sendEmail run with that draft again.
C6_DeliveredAtMostOnce ==
  \A i \in 1..Len(texts) :
    texts[i].result = "ok" =>
      \A j \in (i + 1)..Len(texts) :
        ~(Delivery(j) /\ texts[j].handler = texts[i].handler)

\* C7: a text message is only ever handled for a draft presented in the chat
\* the message came from.
C7_RepliesStayInTheirChat ==
  \A i \in 1..Len(texts) :
    texts[i].handler # 0 => chat[texts[i].handler] = texts[i].chat

\* What any email address has: exactly one "@", something before it, and a
\* dot somewhere after it.
C8_HasAddressShape(s) ==
  /\ Cardinality(IndexesOf(s, "@")) = 1
  /\ \A i \in IndexesOf(s, "@") :
       /\ i > 1
       /\ \E k \in (i + 2)..(Len(s) - 1) : s[k] = "."

\* C8: every draft extractEmailFields has returned, and every draft presented
\* for confirmation, has an address in `to` and a subject and a body of at
\* least one character.
C8_DraftsAreValid ==
  \A r \in Runs :
    (draft[r] # NoDraft \/ pc[r] = "replyDraft" \/ Did(r, "reply:draft")) =>
      /\ C8_HasAddressShape(draft[r].to)
      /\ Len(draft[r].subject) >= 1
      /\ Len(draft[r].body) >= 1

\* C8's case: a draft has been presented.
C8_Witness == \E r \in Runs : Did(r, "reply:draft") /\ draft[r] # NoDraft

\* The audio file of run r is there and larger than the ceiling.
TooLargeInput(r) ==
  existsSync(fs, audio[r]) /\ statSize(fs, audio[r]) > maxFileSize

\* C9: transcribe of a file larger than the ceiling throws TooLarge, having
\* made no network call, no conversion, no copy and no temporary MP3.
C9_TooLargeFailsBeforeAnyWork ==
  \A r \in Runs :
    (TooLargeInput(r) /\ pc[r] \notin {"idle", "transcribe"}) =>
      /\ TranscribeThrew(r)
      /\ err[r] = "TooLarge"
      /\ trace[r] = <<>>
      /\ mp3[r] = NoPath
      /\ \A f \in fs : f.path = audio[r]

\* C9's case: transcribe has thrown on a file larger than the ceiling.
C9_Witness == \E r \in Runs : TooLargeInput(r) /\ TranscribeThrew(r)

UnsupportedInput(r) == toLowerCase(audio[r].ext) \notin supportedFormats

\* C10 as claimed: transcribe of any file with an unsupported extension throws
\* UnsupportedFormat before any conversion.
C10_UnsupportedAlwaysUnsupportedFormat ==
  \A r \in Runs :
    (UnsupportedInput(r) /\ pc[r] \notin {"idle", "transcribe"}) =>
      /\ TranscribeThrew(r)
      /\ err[r] = "UnsupportedFormat"
      /\ trace[r] = <<>>

\* C10 as amended: transcribe of a file with an unsupported extension throws
\* before any conversion, copy or upload; it throws UnsupportedFormat when the
\* file exists, is not empty and is no larger than the ceiling, and NotFound,
\* EmptyFile or TooLarge otherwise.
C10_UnsupportedFailsBeforeTranscoding ==
  \A r \in Runs :
    (UnsupportedInput(r) /\ pc[r] \notin {"idle", "transcribe"}) =>
      /\ TranscribeThrew(r)
      /\ trace[r] = <<>>
      /\ mp3[r] = NoPath
      /\ err[r] = IF ~existsSync(fs, audio[r]) THEN "NotFound"
                  ELSE IF statSize(fs, audio[r]) = 0 THEN "EmptyFile"
                  ELSE IF statSize(fs, audio[r]) > maxFileSize THEN "TooLarge"
                  ELSE "UnsupportedFormat"

\* C10's case: transcribe has thrown UnsupportedFormat.
C10_Witness ==
  \E r \in Runs :
    UnsupportedInput(r) /\ TranscribeThrew(r) /\ err[r] = "UnsupportedFormat"

\* The input of run r's transcribe call passes validateAudioFile, and the
\* call has got as far as the temporary MP3.
ValidInput(r) ==
  /\ pc[r] \in {"upload", "replyTranscription"} \/ err[r] \in
       {"ConversionFailed", "MissingApiKey", "InvalidCredentials", "RateLimited",
        "UpstreamTimeout", "TranscriptionFailed"}

\* How many times `event` occurs in run r's trace.
Count(r, event) == Cardinality({k \in 1..Len(trace[r]) : trace[r][k] = event})

\* C11: a valid input whose extension is .mp3 in any letter case is never
\* transcoded: its temporary MP3 is a copy with the content of the input, and
\* that copy is what is uploaded. A valid input with any other supported
\* extension is transcoded exactly once, before anything is uploaded.
C11_Mp3CopiedOthersTranscodedOnce ==
  \A r \in Runs :
    ValidInput(r) =>
      IF toLowerCase(audio[r].ext) = Mp3Ext
      THEN /\ trace[r] \in {<<"copy">>, <<"copy", "whisper">>}
           /\ pc[r] = "upload" =>
                /\ existsSync(fs, mp3[r])
                /\ statSize(fs, mp3[r]) = statSize(fs, audio[r])
      ELSE /\ Count(r, "ffmpeg") = 1
           /\ ~Did(r, "copy")
           /\ trace[r][1] = "ffmpeg"

\* An input named .Mp3, as large as an input may be, has been copied, not
\* transcoded, and the copy is about to be uploaded.
C11_Witness ==
  /\ audio[1].ext = <<".", "M", "p", "3">>
  /\ pc[1] = "upload"
  /\ trace[1] = <<"copy">>
  /\ statSize(fs, mp3[1]) = maxFileSize

\* The call of extractEmailFields has ended, and the language model answered
\* its request with a content that JSON.parse does not accept.
UnparsableResponse ==
  /\ call.fn = "extractEmailFields"
  /\ call.returned
  /\ call.result.requested
  /\ call.completion.api = "ok"
  /\ call.completion.content.syntax # "json"

\* C12 as stated: every response whose content fails JSON parsing, an empty or
\* absent content included, makes extractEmailFields fail with
\* MalformedResponse and return no draft.
C12_UnparsableAlwaysMalformedResponse ==
  UnparsableResponse =>
    /\ call.result.status = "MalformedResponse"
    /\ call.result.data = NoDraft

\* C12, amended: a content that is not JSON text makes extractEmailFields fail
\* with MalformedResponse ('Invalid JSON response from GPT'); an empty or absent
\* content never reaches JSON.parse and fails with the generic error 'Failed to
\* extract email fields: No response from GPT'. No draft is returned in either
\* case.
C12_UnparsableFailsWithoutDraft ==
  UnparsableResponse =>
    /\ call.result.data = NoDraft
    /\ IF call.completion.content.syntax \in {"absent", "empty"}
       THEN /\ call.result.status = "ExtractionFailed"
            /\ call.message =
                 Message("Failed to extract email fields: ", <<"No response from GPT">>)
       ELSE /\ call.result.status = "MalformedResponse"
            /\ call.message = Message("Invalid JSON response from GPT", <<>>)

\* A transcript with words in it was answered with text that is not JSON, and
\* extractEmailFields has thrown.
C12_Witness ==
  /\ UnparsableResponse
  /\ call.text = <<" ", "h", "i", " ">>
  /\ call.completion.content.syntax = "text"
  /\ call.result.status = "MalformedResponse"

\* The call has ended, and it was given a draft whose `to` is not an email
\* address: extractEmailFields in the JSON object the language model answered,
\* sendEmail as its argument.
InvalidTo ==
  /\ call.returned
  /\ \/ /\ call.fn = "extractEmailFields"
        /\ call.result.requested
        /\ call.completion.api = "ok"
        /\ call.completion.content.syntax = "json"
        /\ "to" \in emailSchemaIssues(call.completion.content.value)
     \/ /\ call.fn = "sendEmail"
        /\ ~IsEmail(call.email.to)

\* The message names the `to` field or says what is wrong with it.
IdentifiesTo(message) ==
  \E k \in 1..Len(message.details) : message.details[k] = "Invalid email address"

\* C13: a draft whose `to` is not a syntactically valid email address is
\* rejected by extractEmailFields and by sendEmail alike with a validation
\* error that identifies `to` as the violated field.
C13_InvalidToIsIdentified ==
  InvalidTo =>
    /\ call.result.status \in {"InvalidDraft", "InvalidEmailData"}
    /\ IdentifiesTo(call.message)

\* The errors transcribe throws.
TranscribeErrors ==
  {"NotFound", "EmptyFile", "TooLarge", "UnsupportedFormat", "ConversionFailed",
   "MissingApiKey", "InvalidCredentials", "RateLimited", "UpstreamTimeout",
   "TranscriptionFailed"}

\* The message listener attached by run r has handled a text message.
Answered(r) == \E i \in 1..Len(texts) : texts[i].handler = r

\* Run r has attached a message listener.
Listening(r) == \E k \in 1..Len(handlers) : handlers[k] = r

\* C14: a run whose transcribe call failed never calls extractEmailFields or
\* sendEmail and attaches no message listener, and by the time it has ended
\* the user has been sent the processing-failure message.
C14_FailedTranscriptionStopsTheRun ==
  \A r \in Runs :
    err[r] \in TranscribeErrors =>
      /\ ~Did(r, "gpt")
      /\ draft[r] = NoDraft
      /\ ~Listening(r)
      /\ ~Answered(r)
      /\ pc[r] \in {"catch", "voiceCatch", "failed"}
      /\ pc[r] # "catch" => Did(r, "reply:failed")

\* The upload of run 1 was refused for the rate limit, the run has ended, and
\* meanwhile run 2 has presented a draft.
C14_Witness ==
  /\ err[1] = "RateLimited"
  /\ pc[1] = "failed"
  /\ Did(1, "reply:failed")
  /\ Listening(2)

\* The errors extractEmailFields throws.
ExtractErrors == {"InvalidInput", "ExtractionFailed", "MalformedResponse", "InvalidDraft"}

C16_FailedDeliveryIsAnswered ==
  \A i \in 1..Len(texts) :
    texts[i].result \notin {"none", "ok"} =>
      /\ texts[i].reply = "sendFailed"
      /\ \A j \in (i + 1)..Len(texts) :
           texts[j].reply = IF texts[j].branch = "send" THEN sendReply(texts[j].result)
                            ELSE IF texts[j].branch = "cancel" THEN "cancelled"
                            ELSE "reprompt"

\* A delivery failed; afterwards a text message was answered, and a voice
\* message that arrived in the meantime got its draft.
C16_Witness ==
  /\ Len(texts) = 2
  /\ texts[1].result = "DeliveryFailed"
  /\ texts[1].reply = "sendFailed"
  /\ texts[2].reply = "cancelled"
  /\ Listening(2)

\* The exception of run r was thrown inside the inner try block, by
\* extractEmailFields or by the reply that presents the draft.
ThrownInInnerTry(r) ==
  \/ err[r] \in ExtractErrors
  \/ err[r] = "ReplyFailed" /\ Did(r, "reply:transcription")

InFlight(r) ==
  pc[r] \in {"replyProcessing", "download", "downloadBody", "hung", "transcribe",
             "upload", "replyTranscription", "extract", "replyDraft", "noEmail",
             "catch"}

\* C18: two runs in flight at the same time never use the same temporary
\* file, neither the downloaded one nor the temporary MP3, whatever the file
\* identifiers of their voice messages.
C18_RunsInFlightUseDistinctFiles ==
  \A r, q \in Runs :
    (r # q /\ InFlight(r) /\ InFlight(q)) =>
      /\ audio[r] # audio[q]
      /\ mp3[r] # NoPath => mp3[r] # mp3[q]

\* The calls a run makes to the services outside the bot.
ExternalCalls == {"getFile", "download", "ffmpeg", "copy", "whisper", "gpt"}

\* C19: no run makes any of its external calls twice, and a draft whose
\* delivery failed is not submitted again on a further reply: the next
\* delivery attempt is that of another voice message's draft.
C19_NoStageIsRetried ==
  /\ \A r \in Runs : \A e \in ExternalCalls : Count(r, e) <= 1
  /\ \A i \in 1..Len(texts) :
       texts[i].result = "DeliveryFailed" =>
         \A j \in (i + 1)..Len(texts) :
           ~(Delivery(j) /\ texts[j].handler = texts[i].handler)

\* A step of handleVoiceMessage, or of the catch of bot.on('voice'), for run r.
RunStep(r) ==
  \/ GetFileUrl(r)
  \/ ReplyProcessing(r)
  \/ Download(r)
  \/ DownloadBody(r)
  \/ Transcribe(r)
  \/ Upload(r)
  \/ ReplyTranscription(r)
  \/ Extract(r)
  \/ ReplyDraft(r)
  \/ NoEmail(r)
  \/ Catch(r)
  \/ VoiceCatch(r)

\* The download of run r met an error: the request failed, the writer failed,
\* or the response stream failed while the body was coming in.
DownloadErred(r) == pc[r] = "hung" \/ err[r] \in {"DownloadFailed", "WriteError"}

\* C20: a run whose download met a write or network error is never left
\* with nothing to resume it: it always has a next step until it has ended,
\* and it ends failed, with DownloadFailed, after the user was sent the
\* failure message.
C20_DownloadErrorsAbortTheRun ==
  \A r \in Runs :
    DownloadErred(r) =>
      IF Ended(r)
      THEN pc[r] = "failed" /\ err[r] = "DownloadFailed" /\ Did(r, "reply:failed")
      ELSE ENABLED RunStep(r)

\* C21: when the verification of the SMTP connection fails the service is
\* not constructed, and sendEmail never runs on a transport whose
\* verification failed or is still going on.
C21_FailedVerificationIsFatal ==
  /\ smtp.verify = "failed" => smtp.state # "constructed"
  /\ \A k \in 1..Len(smtp.sent) : smtp.sent[k] = "ok"

\* One of the four required values is not set, or set to nothing.
MissingConfig == \E v \in {smtp.host, smtp.port, smtp.user, smtp.pass} : v # "set"

\* C22: with any of host, port, user or password absent (not set, or empty)
\* the constructor of EmailService throws MissingSmtpConfig and no transport
\* is created; with all four set the constructor returns.
C22_MissingSmtpConfigFailsConstruction ==
  smtp.state # "new" =>
    IF MissingConfig
    THEN smtp.state = "threw" /\ smtp.error = "MissingSmtpConfig" /\ ~smtp.transport
    ELSE smtp.state = "constructed" /\ smtp.error = "none" /\ smtp.transport

\* Only the password is missing, and the constructor has thrown.
C22_Witness ==
  /\ smtp.host = "set" /\ smtp.port = "set" /\ smtp.user = "set"
  /\ smtp.pass = "absent"
  /\ smtp.state = "threw"

\* The call of sendEmail has ended.
SendReturned == call.fn = "sendEmail" /\ call.returned

\* The messages of all the issues of the call's draft and options.
AllIssues ==
  emailSchemaMessages(Obj(Str(call.email.to), Str(call.email.subject), Str(call.email.body)))
  \o emailOptionsSchemaMessages(call.options)

\* C23: a sendEmail call whose draft or options fail validation fails with
\* InvalidEmailData, its message lists every violated field, and nothing is
\* submitted to the transport.
C23_InvalidEmailDataListsEveryField ==
  (SendReturned /\ AllIssues # <<>>) =>
    /\ call.result.status = "InvalidEmailData"
    /\ call.submitted = <<>>
    /\ \A k \in 1..Len(AllIssues) :
         \E n \in 1..Len(call.message.details) : call.message.details[n] = AllIssues[k]

UploadFailed == call.fn = "sendToWhisper" /\ call.returned

\* The message carries the upstream error's message.
CarriesUpstream(message, e) ==
  \E k \in 1..Len(message.details) : message.details[k] = e.message

\* C25: a failed upload is translated by what failed: a 401 response gives
\* InvalidCredentials, a 429 response RateLimited, a timeout UpstreamTimeout,
\* and anything else TranscriptionFailed with the upstream message in it.
C25_UploadFailuresAreTranslated ==
  UploadFailed =>
    IF call.upload.status = 401 THEN call.result.status = "InvalidCredentials"
    ELSE IF call.upload.status = 429 THEN call.result.status = "RateLimited"
    ELSE IF call.upload.code = "ECONNABORTED" THEN call.result.status = "UpstreamTimeout"
    ELSE /\ call.result.status = "TranscriptionFailed"
         /\ CarriesUpstream(call.message, call.upload)

\* The call of extractEmailFields has ended.
ExtractReturned == call.fn = "extractEmailFields" /\ call.returned

\* The text has nothing but whitespace in it.
Blank(text) == \A i \in 1..Len(text) : text[i] \in Whitespace

\* C26: a text that is empty once trimmed makes extractEmailFields fail with
\* InvalidInput ('Text cannot be empty') without any request to the language
\* model, whatever the config.
C26_BlankTextIsRejectedUnrequested ==
  (ExtractReturned /\ Blank(call.text)) =>
    /\ call.result.status = "InvalidInput"
    /\ call.message = Message("Text cannot be empty", <<>>)
    /\ ~call.result.requested
    /\ call.request = NoRequest

\* A text of one space was rejected, with a config that is itself invalid.
C26_Witness ==
  /\ ExtractReturned
  /\ call.text = <<" ">>
  /\ call.config.temperature = Opt(TRUE, 21)
  /\ call.result.status = "InvalidInput"

\* The value a field of the request must have: the caller's when supplied,
\* the default otherwise.
Overridden(field, default) == IF field.present THEN field.v ELSE default

\* C27: a config whose merged temperature is outside [0, 2] makes
\* extractEmailFields fail with InvalidConfig before any request, with the
\* kind of exception its other input check throws; otherwise the request
\* carries the caller's value for each field supplied and the default (gpt-4,
\* 0.7, 1000) for each field not supplied.
C27_InvalidConfigIsAValidationError ==
  (ExtractReturned /\ ~Blank(call.text)) =>
    IF Overridden(call.config.temperature, 7) < 0 \/ Overridden(call.config.temperature, 7) > 20
    THEN /\ call.result.status = "InvalidConfig"
         /\ ~call.result.requested
         /\ call.exception = "BadRequestException"
    ELSE /\ call.result.requested
         /\ call.request.model = Overridden(call.config.model, "gpt-4")
         /\ call.request.temperature = Overridden(call.config.temperature, 7)
         /\ call.request.maxTokens = Overridden(call.config.maxTokens, 1000)

\* C28: a text that is neither "yes" nor "no", received while a draft awaits
\* the chat's answer, is answered with the re-prompt and sends nothing, and
\* the draft keeps waiting: if it is still the chat's pending draft when the
\* chat's next message comes, a "yes" delivers that draft and a "no" cancels.
C28_OtherTextKeepsTheDraftWaiting ==
  \A i \in 1..Len(texts) :
    (texts[i].pending # 0 /\ toLowerCase(texts[i].text) \notin {YES, NO}) =>
      /\ texts[i].reply = "reprompt"
      /\ ~Delivery(i)
      /\ \A j \in (i + 1)..Len(texts) :
           ( /\ texts[j].chat = texts[i].chat
             /\ texts[j].pending = texts[i].pending
             /\ \A k \in (i + 1)..(j - 1) : texts[k].chat # texts[i].chat ) =>
             /\ toLowerCase(texts[j].text) = YES =>
                  (Delivery(j) /\ texts[j].sent = draft[texts[i].pending])
             /\ toLowerCase(texts[j].text) = NO =>
                  (~Delivery(j) /\ texts[j].reply = "cancelled")

\* The stages of a run, in the order of handleVoiceMessage; in the bot every
\* voice file is an .ogg, which transcribe converts.
StageOrder == <<"getFile", "download", "ffmpeg", "whisper", "gpt", "reply:draft", "listen">>

\* The stages run r has started, in the order it started them.
Stages(r) ==
  SelectSeq(trace[r], LAMBDA e : \E k \in 1..Len(StageOrder) : StageOrder[k] = e)

IsPrefix(s, t) == Len(s) <= Len(t) /\ \A k \in 1..Len(s) : s[k] = t[k]

\* C29: the stages a run has started are always an initial part of file
\* resolution, download, transcription, extraction, draft presentation and
\* listening for the confirmation, in that order; a run in which a call has
\* failed starts no further stage; and a text message is only handled for a
\* run, and its draft only delivered, once that run listens.
C29_StagesInOrder ==
  [][\A r \in Runs :
       /\ IsPrefix(Stages(r)', StageOrder)
       /\ err[r] # "none" => Stages(r)' = Stages(r)
       /\ Answered(r)' => Did(r, "listen")']_vars

\* Run 1 went through every stage, and its draft was delivered on a "yes".
C29_Witness ==
  /\ Stages(1) = StageOrder
  /\ Len(texts) >= 1
  /\ texts[1].handler = 1
  /\ texts[1].result = "ok"

\* C30: a run whose file resolution failed has done nothing else: it has
\* called getFile and nothing after it, has created no file and attached no
\* listener, and ends with the failure notice of bot.on('voice').
C30_FailedFileResolutionStopsTheRun ==
  \A r \in Runs :
    err[r] = "FileResolutionFailed" =>
      /\ pc[r] \in {"voiceCatch", "failed"}
      /\ trace[r] = IF pc[r] = "failed" THEN <<"getFile", "reply:sorry">> ELSE <<"getFile">>
      /\ \A f \in fs : f.owner # r
      /\ mp3[r] = NoPath
      /\ ~Listening(r)

\* The file resolution of run 1 failed and the user was told, while run 2,
\* for the same file, has downloaded it.
C30_Witness ==
  /\ err[1] = "FileResolutionFailed"
  /\ pc[1] = "failed"
  /\ audio[2] = audio[1]
  /\ \E f \in fs : f.owner = 2

\* ------------------------------------------------------------------ C31

\* The runs that have presented their draft, i.e. sent the reply that shows it.
Presented == {r \in Runs : Did(r, "reply:draft")}

Uploaded == call.fn = "sendToWhisper" /\ call.returned

\* C32: the form posted has the MP3 as its file and the fixed model
\* identifier, and for each of language, responseFormat, temperature and
\* prompt the field is there exactly when the caller supplied a value,
\* a temperature of 0 included.
C32_UploadCarriesEveryOptionSupplied ==
  Uploaded =>
    /\ call.form.file = call.mp3Path
    /\ call.form.model = "whisper-1"
    /\ call.form.language.present = call.transcription.language.present
    /\ call.form.response_format.present = call.transcription.responseFormat.present
    /\ call.form.temperature.present = call.transcription.temperature.present
    /\ call.form.prompt.present = call.transcription.prompt.present

\* ------------------------------------------------------------------ C33

\* C33: every message sendEmail submits to the transport is from the
\* configured SMTP user, to the draft's recipient and with the draft's subject;
\* the draft's body is in the html field when options.html is true and in the
\* text field otherwise, the other of the two being absent; and cc, bcc and
\* attachments are there exactly when the caller supplied them, as supplied.
C33_SubmittedMessageFollowsDraftAndOptions ==
  SendReturned =>
    \A k \in 1..Len(call.submitted) :
      LET m == call.submitted[k]
      IN  /\ m.from = "SMTP_USER"
          /\ m.to = call.email.to
          /\ m.subject = call.email.subject
          /\ m.html.present = (call.options.html = "true")
          /\ m.text.present = ~m.html.present
          /\ m.html.present => m.html.s = call.email.body
          /\ m.text.present => m.text.s = call.email.body
          /\ m.cc.present = call.options.cc.present
          /\ m.bcc.present = call.options.bcc.present
          /\ m.attachments.present = call.options.attachments.present
          /\ m.cc = call.options.cc
          /\ m.bcc = call.options.bcc
          /\ m.attachments = call.options.attachments

\* A draft was delivered as plain text, html being false, with the cc list
\* and the empty bcc list the caller supplied and no attachments.
C33_Witness ==
  /\ SendReturned
  /\ call.result.status = "ok"
  /\ call.options = Options("false", Array(<<ValidTo>>), Array(<<>>), Absent)
  /\ Len(call.submitted) = 1
  /\ call.submitted[1].text = Field(TRUE, <<"b">>)
  /\ call.submitted[1].bcc = Array(<<>>)
  /\ ~call.submitted[1].attachments.present

\* ------------------------------------------------------------------ C34

\* The failure notices sent to the user in run r: 'Failed to process your
\* voice message. Please try again.' from the catch of handleVoiceMessage and
\* 'Sorry, I encountered an error...' from the catch of bot.on('voice').
FailureNotices(r) == Count(r, "reply:failed") + Count(r, "reply:sorry")

\* Run r has ended by a failure of the file resolution, of the download or
\* of the transcription.
FailedRun(r) ==
  /\ Ended(r)
  /\ err[r] \in {"FileResolutionFailed", "DownloadFailed", "WriteError"}
                 \cup TranscribeErrors

\* C34: a run that failed at the file resolution, at the download or at the
\* transcription has sent the user exactly one failure notice.
C34_OneFailureNoticePerFailedRun ==
  \A r \in Runs : FailedRun(r) => FailureNotices(r) = 1

\* ------------------------------------------------------------------ C35

\* The errors of validateAudioFile.
ValidationErrors == {"NotFound", "EmptyFile", "TooLarge", "UnsupportedFormat"}

\* C35: the checks of the audio file are made in one order and the first
\* that fails decides: a missing file gives NotFound; a file of size 0
\* EmptyFile; a larger file above the ceiling TooLarge; a file within the
\* ceiling with an unsupported extension UnsupportedFormat; and any other
\* file, one exactly as large as the ceiling included, passes validation.
C35_ChecksInOrderFirstFailureDecides ==
  \A r \in Runs :
    pc[r] \notin {"idle", "transcribe"} =>
      /\ ~existsSync(fs, audio[r]) => err[r] = "NotFound"
      /\ existsSync(fs, audio[r]) =>
           /\ statSize(fs, audio[r]) = 0 => err[r] = "EmptyFile"
           /\ statSize(fs, audio[r]) > maxFileSize => err[r] = "TooLarge"
           /\ (statSize(fs, audio[r]) \in 1..maxFileSize /\ UnsupportedInput(r)) =>
                err[r] = "UnsupportedFormat"
           /\ (statSize(fs, audio[r]) \in 1..maxFileSize /\ ~UnsupportedInput(r)) =>
                /\ err[r] \notin ValidationErrors
                /\ ValidInput(r)

\* A .wav file exactly as large as the ceiling has passed validation and been
\* transcoded.
C35_Witness ==
  /\ audio[1].ext = <<".", "w", "a", "v">>
  /\ existsSync(fs, audio[1])
  /\ statSize(fs, audio[1]) = maxFileSize
  /\ pc[1] = "upload"
  /\ trace[1] = <<"ffmpeg">>

====
